---- MODULE Spec2Model ----
(***************************************************************************)
(* Model of src/app.py: the Flask service with POST /identify (classifier  *)
(* cascade over three Baidu recognizers, then the Zhipu weight/calorie     *)
(* estimator, then a store into food_info_cache) and GET /calories (the    *)
(* proportional rescale of a cached estimate).                             *)
(*                                                                         *)
(* Text is modelled as a sequence of characters, one TLA+ string per       *)
(* character.  ASCII characters stand for themselves; a Chinese character  *)
(* is written as its pinyin, e.g. "fan" is the character 饭.               *)
(***************************************************************************)
EXTENDS Integers, Sequences, FiniteSets, Bags, TLC

(***************************************************************************)
(* IEEE-754 binary64 arithmetic, as used by                                *)
(*   int((weight / original_weight) * original_calories)                   *)
(* A positive double is [hi, mid, lo, e]: its 53-bit significand is        *)
(* hi * 2^36 + mid * 2^18 + lo with 2^16 <= hi < 2^17 and mid, lo < 2^18,  *)
(* and e is the exponent of the leading bit, so that the value is          *)
(* significand * 2^(e - 52).  Operands are integers below 2^12, which      *)
(* convert to doubles exactly.                                             *)
(***************************************************************************)
Limb == 2 ^ 18

\* k more quotient bits of r / b (k <= 9, r < b < 2^22), and the remainder
DivStep(r, b, k) == [q |-> (r * 2 ^ k) \div b, r |-> (r * 2 ^ k) % b]

\* 2 * h more quotient bits of r / b, in two steps of h bits
DivLimb(r, b, h) ==
    LET s1 == DivStep(r, b, h)
        s2 == DivStep(s1.r, b, h)
    IN  [q |-> s1.q * 2 ^ h + s2.q, r |-> s2.r]

\* scale a / b into [1, 2): the exponent of the quotient
RECURSIVE DivNorm(_, _, _)
DivNorm(a, b, e) ==
    IF a < b THEN DivNorm(2 * a, b, e - 1)
    ELSE IF a >= 2 * b THEN DivNorm(a, 2 * b, e + 1)
    ELSE [a |-> a, b |-> b, e |-> e]

\* round-to-nearest, ties-to-even: add one unit in the last place when the
\* guard bit is set and either a lower bit is set or the last bit is odd
RoundNearestEven(hi, mid, lo, e, guard, sticky) ==
    LET up   == guard = 1 /\ (sticky \/ lo % 2 = 1)
        lo1  == IF up THEN lo + 1 ELSE lo
        mid1 == mid + lo1 \div Limb
        hi1  == hi + mid1 \div Limb
    IN  IF hi1 = 2 ^ 17
        THEN [hi |-> 2 ^ 16, mid |-> 0, lo |-> 0, e |-> e + 1]
        ELSE [hi |-> hi1, mid |-> mid1 % Limb, lo |-> lo1 % Limb, e |-> e]

\* float(a) / float(b) for positive integers a, b
FDiv(a, b) ==
    LET nrm == DivNorm(a, b, 0)
        q1  == DivLimb(nrm.a - nrm.b, nrm.b, 8)
        q2  == DivLimb(q1.r, nrm.b, 9)
        q3  == DivLimb(q2.r, nrm.b, 9)
        g   == DivStep(q3.r, nrm.b, 1)
    IN  RoundNearestEven(2 ^ 16 + q1.q, q2.q, q3.q, nrm.e, g.q, g.r > 0)

\* x * float(c) for a positive double x and an integer 0 < c < 2^12
FMul(x, c) ==
    LET t0 == x.lo * c
        t1 == x.mid * c + t0 \div Limb
        t2 == x.hi * c + t1 \div Limb
        p0 == t0 % Limb
        p1 == t1 % Limb
        \* the product has 53 + k bits
        k  == CHOOSE n \in 0..13 : 2 ^ (16 + n) <= t2 /\ t2 < 2 ^ (17 + n)
        lo == p0 \div 2 ^ k + (p1 % 2 ^ k) * 2 ^ (18 - k)
        mid == p1 \div 2 ^ k + (t2 % 2 ^ k) * 2 ^ (18 - k)
        hi == t2 \div 2 ^ k
        guard == IF k = 0 THEN 0 ELSE (p0 \div 2 ^ (k - 1)) % 2
        sticky == k > 1 /\ p0 % 2 ^ (k - 1) # 0
    IN  RoundNearestEven(hi, mid, lo, x.e + k, guard, sticky)

\* int(x) for a positive double x below 2^31: truncation
FTrunc(x) ==
    LET s == 52 - x.e
    IN  IF x.e < 0 THEN 0
        ELSE IF s >= 36 THEN x.hi \div 2 ^ (s - 36)
        ELSE x.hi * 2 ^ (36 - s) + x.mid \div 2 ^ (s - 18)

(***************************************************************************)
(* Python text operations used by the handlers                             *)
(***************************************************************************)
Digit == {"0", "1", "2", "3", "4", "5", "6", "7", "8", "9"}

Whitespace == {" ", "\t", "\n", "\r"}

DigitVal(c) ==
    CASE c = "0" -> 0 [] c = "1" -> 1 [] c = "2" -> 2 [] c = "3" -> 3
      [] c = "4" -> 4 [] c = "5" -> 5 [] c = "6" -> 6 [] c = "7" -> 7
      [] c = "8" -> 8 [] c = "9" -> 9

DigitChar(d) == <<"0", "1", "2", "3", "4", "5", "6", "7", "8", "9">>[d + 1]

\* `kw in s` for strings: kw occurs as a contiguous substring of s
Contains(s, kw) ==
    \E i \in 1..(Len(s) - Len(kw) + 1) : SubSeq(s, i, i + Len(kw) - 1) = kw

\* s.replace(c, '') for a single character c
RECURSIVE Remove(_, _)
Remove(s, c) ==
    IF s = <<>> THEN <<>>
    ELSE IF Head(s) = c THEN Remove(Tail(s), c)
    ELSE <<Head(s)>> \o Remove(Tail(s), c)

\* s.strip()
RECURSIVE Strip(_)
Strip(s) ==
    IF s = <<>> THEN <<>>
    ELSE IF Head(s) \in Whitespace THEN Strip(Tail(s))
    ELSE IF s[Len(s)] \in Whitespace THEN Strip(SubSeq(s, 1, Len(s) - 1))
    ELSE s

\* the index after the run of digits that starts at index i of s
RECURSIVE DigitsEnd(_, _)
DigitsEnd(s, i) ==
    IF i <= Len(s) /\ s[i] \in Digit THEN DigitsEnd(s, i + 1) ELSE i

\* re.findall(r'\d+', s) from index i on: the maximal runs of digits
RECURSIVE FindAllDigits(_, _)
FindAllDigits(s, i) ==
    IF i > Len(s) THEN <<>>
    ELSE IF s[i] \in Digit
         THEN LET j == DigitsEnd(s, i)
              IN  <<SubSeq(s, i, j - 1)>> \o FindAllDigits(s, j)
         ELSE FindAllDigits(s, i + 1)

\* the value of a string of decimal digits
RECURSIVE DigitsVal(_)
DigitsVal(ds) ==
    IF ds = <<>> THEN 0
    ELSE 10 * DigitsVal(SubSeq(ds, 1, Len(ds) - 1)) + DigitVal(ds[Len(ds)])

\* str(n) for a natural number n
RECURSIVE NatStr(_)
NatStr(n) ==
    IF n < 10 THEN <<DigitChar(n)>>
    ELSE Append(NatStr(n \div 10), DigitChar(n % 10))

\* str(n) for an integer n
IntStr(n) == IF n < 0 THEN <<"-">> \o NatStr(-n) ELSE NatStr(n)

ValueError == [exc |-> "ValueError"]

\* int(s) for a string s: surrounding whitespace, an optional sign, then
\* digits with single underscores allowed between them; ValueError otherwise
PyInt(s) ==
    LET Signed(neg, v) == [exc |-> "none", v |-> IF neg THEN -v ELSE v]
        Literal(neg, body) ==
            IF /\ body # <<>>
               /\ \A i \in 1..Len(body) : body[i] \in Digit \cup {"_"}
               /\ body[1] # "_" /\ body[Len(body)] # "_"
               /\ \A i \in 1..(Len(body) - 1) : ~(body[i] = "_" /\ body[i + 1] = "_")
            THEN Signed(neg, DigitsVal(Remove(body, "_")))
            ELSE ValueError
        Stripped(t) ==
            Literal(t # <<>> /\ Head(t) = "-",
                    IF t # <<>> /\ Head(t) \in {"-", "+"} THEN Tail(t) ELSE t)
    IN  Stripped(Strip(s))

(***************************************************************************)
(* json.loads: a JSON value is a record tagged by t.                       *)
(*   int: v is the number; float: v is the literal as written;             *)
(*   str: v is the characters; list: v is the sequence of values;          *)
(*   dict: v is the sequence of [k, v] members in source order.            *)
(* The string escapes \b, \f and \uXXXX are outside the modelled alphabet. *)
(***************************************************************************)
Fail == [ok |-> FALSE]

Parsed(val, pos) == [ok |-> TRUE, val |-> val, pos |-> pos]

RECURSIVE SkipWs(_, _)
SkipWs(s, i) ==
    IF i <= Len(s) /\ s[i] \in Whitespace THEN SkipWs(s, i + 1) ELSE i

StartsWith(s, i, lit) ==
    i + Len(lit) - 1 <= Len(s) /\ SubSeq(s, i, i + Len(lit) - 1) = lit

\* the body of a string literal from index i, just after the opening quote
RECURSIVE ScanString(_, _, _)
ScanString(s, i, acc) ==
    IF i > Len(s) THEN Fail
    ELSE IF s[i] = "\"" THEN Parsed([t |-> "str", v |-> acc], i + 1)
    ELSE IF s[i] = "\\"
         THEN IF i + 1 > Len(s) THEN Fail
              ELSE IF s[i + 1] \in {"\"", "\\", "/"}
                   THEN ScanString(s, i + 2, Append(acc, s[i + 1]))
              ELSE IF s[i + 1] = "n" THEN ScanString(s, i + 2, Append(acc, "\n"))
              ELSE IF s[i + 1] = "r" THEN ScanString(s, i + 2, Append(acc, "\r"))
              ELSE IF s[i + 1] = "t" THEN ScanString(s, i + 2, Append(acc, "\t"))
              ELSE Fail
    ELSE IF s[i] \in {"\n", "\r", "\t"} THEN Fail
    ELSE ScanString(s, i + 1, Append(acc, s[i]))

\* a number literal at index i: (-?(?:0|[1-9]\d*))(\.\d+)?([eE][-+]?\d+)?
ScanNumber(s, i) ==
    LET Integer(j0, intEnd, n) ==
            Parsed([t |-> "int", v |-> IF j0 > i THEN -n ELSE n], intEnd)
        Literal(j0, intEnd, expEnd) ==
            IF intEnd = j0 THEN Fail
            ELSE IF expEnd = intEnd
                 THEN Integer(j0, intEnd, DigitsVal(SubSeq(s, j0, intEnd - 1)))
                 ELSE Parsed([t |-> "float", v |-> SubSeq(s, i, expEnd - 1)], expEnd)
        \* ([eE][-+]?\d+)? with its digits from expFrom on
        Exponent(j0, intEnd, fracEnd, expFrom) ==
            Literal(j0, intEnd,
                    IF fracEnd <= Len(s) /\ s[fracEnd] \in {"e", "E"}
                       /\ DigitsEnd(s, expFrom) > expFrom
                    THEN DigitsEnd(s, expFrom) ELSE fracEnd)
        \* (\.\d+)? has ended at fracEnd
        Fraction(j0, intEnd, fracEnd) ==
            Exponent(j0, intEnd, fracEnd,
                     IF fracEnd + 1 <= Len(s) /\ s[fracEnd + 1] \in {"+", "-"}
                     THEN fracEnd + 2 ELSE fracEnd + 1)
        \* (0|[1-9]\d*) has ended at intEnd
        Whole(j0, intEnd) ==
            Fraction(j0, intEnd,
                     IF intEnd <= Len(s) /\ s[intEnd] = "."
                        /\ DigitsEnd(s, intEnd + 1) > intEnd + 1
                     THEN DigitsEnd(s, intEnd + 1) ELSE intEnd)
        \* -? has ended at j0
        Sign(j0) ==
            Whole(j0, IF j0 <= Len(s) /\ s[j0] = "0" THEN j0 + 1 ELSE DigitsEnd(s, j0))
    IN  Sign(IF i <= Len(s) /\ s[i] = "-" THEN i + 1 ELSE i)

RECURSIVE ParseValue(_, _)
RECURSIVE ParseArray(_, _, _)
RECURSIVE ParseObject(_, _, _)

\* the members of an object from index i (at a key) on
ParseObject(s, i, acc) ==
    LET AfterMember(d, acc1) ==
            IF d > Len(s) THEN Fail
            ELSE IF s[d] = "}" THEN Parsed([t |-> "dict", v |-> acc1], d + 1)
            ELSE IF s[d] = "," THEN ParseObject(s, SkipWs(s, d + 1), acc1)
            ELSE Fail
        AfterValue(key, val) ==
            IF ~val.ok THEN Fail
            ELSE AfterMember(SkipWs(s, val.pos),
                             Append(acc, [k |-> key.val.v, v |-> val.val]))
        AfterKey(key, c) ==
            IF c > Len(s) \/ s[c] # ":" THEN Fail
            ELSE AfterValue(key, ParseValue(s, SkipWs(s, c + 1)))
        Key(key) == IF ~key.ok THEN Fail ELSE AfterKey(key, SkipWs(s, key.pos))
    IN  IF i > Len(s) \/ s[i] # "\"" THEN Fail
        ELSE Key(ScanString(s, i + 1, <<>>))

\* the elements of an array from index i (at a value) on
ParseArray(s, i, acc) ==
    LET AfterElement(d, acc1) ==
            IF d > Len(s) THEN Fail
            ELSE IF s[d] = "]" THEN Parsed([t |-> "list", v |-> acc1], d + 1)
            ELSE IF s[d] = "," THEN ParseArray(s, SkipWs(s, d + 1), acc1)
            ELSE Fail
        Element(val) ==
            IF ~val.ok THEN Fail
            ELSE AfterElement(SkipWs(s, val.pos), Append(acc, val.val))
    IN  Element(ParseValue(s, i))

ParseValue(s, i) ==
    IF i > Len(s) THEN Fail
    ELSE IF s[i] = "\"" THEN ScanString(s, i + 1, <<>>)
    ELSE IF s[i] = "{"
         THEN LET j == SkipWs(s, i + 1) IN
              IF j <= Len(s) /\ s[j] = "}" THEN Parsed([t |-> "dict", v |-> <<>>], j + 1)
              ELSE ParseObject(s, j, <<>>)
    ELSE IF s[i] = "["
         THEN LET j == SkipWs(s, i + 1) IN
              IF j <= Len(s) /\ s[j] = "]" THEN Parsed([t |-> "list", v |-> <<>>], j + 1)
              ELSE ParseArray(s, j, <<>>)
    ELSE IF StartsWith(s, i, <<"n", "u", "l", "l">>) THEN Parsed([t |-> "null"], i + 4)
    ELSE IF StartsWith(s, i, <<"t", "r", "u", "e">>) THEN Parsed([t |-> "bool", v |-> TRUE], i + 4)
    ELSE IF StartsWith(s, i, <<"f", "a", "l", "s", "e">>) THEN Parsed([t |-> "bool", v |-> FALSE], i + 5)
    ELSE IF StartsWith(s, i, <<"N", "a", "N">>) THEN Parsed([t |-> "float", v |-> <<"n", "a", "n">>], i + 3)
    ELSE IF StartsWith(s, i, <<"I", "n", "f", "i", "n", "i", "t", "y">>)
         THEN Parsed([t |-> "float", v |-> <<"i", "n", "f">>], i + 8)
    ELSE IF StartsWith(s, i, <<"-", "I", "n", "f", "i", "n", "i", "t", "y">>)
         THEN Parsed([t |-> "float", v |-> <<"-", "i", "n", "f">>], i + 9)
    ELSE ScanNumber(s, i)

\* json.loads(s): one value with optional whitespace around it, else
\* JSONDecodeError
json_loads(s) ==
    LET Document(r) ==
            IF r.ok /\ SkipWs(s, r.pos) > Len(s) THEN [exc |-> "none", val |-> r.val]
            ELSE [exc |-> "JSONDecodeError"]
    IN  Document(ParseValue(s, SkipWs(s, 1)))

\* str(x) of a parsed value; members of a list or dict are shown by repr
RECURSIVE PyStr(_, _)
RECURSIVE PyJoin(_, _)
PyJoin(items, isDict) ==
    IF items = <<>> THEN <<>>
    ELSE LET one == IF isDict
                    THEN PyStr([t |-> "str", v |-> Head(items).k], TRUE)
                             \o <<":", " ">> \o PyStr(Head(items).v, TRUE)
                    ELSE PyStr(Head(items), TRUE)
         IN  IF Len(items) = 1 THEN one
             ELSE one \o <<",", " ">> \o PyJoin(Tail(items), isDict)

PyStr(x, repr) ==
    CASE x.t = "int" -> IntStr(x.v)
      [] x.t = "float" -> x.v
      [] x.t = "str" -> IF repr THEN <<"'">> \o x.v \o <<"'">> ELSE x.v
      [] x.t = "null" -> <<"N", "o", "n", "e">>
      [] x.t = "bool" -> IF x.v THEN <<"T", "r", "u", "e">> ELSE <<"F", "a", "l", "s", "e">>
      [] x.t = "list" -> <<"[">> \o PyJoin(x.v, FALSE) \o <<"]">>
      [] x.t = "dict" -> <<"{">> \o PyJoin(x.v, TRUE) \o <<"}">>

\* result[key]: the last member with that key of a dict, KeyError when there
\* is none, TypeError when result is not a dict
GetItem(result, key) ==
    IF result.t # "dict" THEN [exc |-> "TypeError"]
    ELSE LET hits == {i \in 1..Len(result.v) : result.v[i].k = key}
         IN  IF hits = {} THEN [exc |-> "KeyError"]
             ELSE [exc |-> "none",
                   val |-> result.v[CHOOSE i \in hits : \A j \in hits : j <= i].v]

(***************************************************************************)
(* estimate_food_info_from_image                                           *)
(* The remote chat completion is the input `ai`: [kind |-> "raise"] when   *)
(* the call or the access to choices[0].message.content raises, otherwise  *)
(* [kind |-> "text", content |-> the characters of the reply].             *)
(***************************************************************************)
\* ['饭', '面', '粥']
GrainKeywords == {<<"fan">>, <<"mian">>, <<"zhou">>}

\* ['肉', '鱼', '鸡', '鸭']
MeatKeywords == {<<"rou">>, <<"yu">>, <<"ji">>, <<"ya">>}

\* ['菜', '青菜', '生菜']
VegetableKeywords == {<<"cai">>, <<"qing", "cai">>, <<"sheng", "cai">>}

\* ['苹果', '梨', '橙子', '柚子']
FruitKeywords == {<<"ping", "guo">>, <<"li">>, <<"cheng", "zi">>, <<"you", "zi">>}

\* ['草莓', '葡萄', '樱桃']
BerryKeywords == {<<"cao", "mei">>, <<"pu", "tao">>, <<"ying", "tao2">>}

FoodInfo(w, c) == [weight |-> w, calories |-> c]

\* any(keyword in food_name for keyword in keywords)
AnyIn(keywords, food_name) == \E kw \in keywords : Contains(food_name, kw)

\* the default of the first keyword bucket the label falls in
DefaultInfo(food_name) ==
    IF AnyIn(GrainKeywords, food_name) THEN FoodInfo(250, 350)
    ELSE IF AnyIn(MeatKeywords, food_name) THEN FoodInfo(180, 280)
    ELSE IF AnyIn(VegetableKeywords, food_name) THEN FoodInfo(120, 50)
    ELSE IF AnyIn(FruitKeywords, food_name) THEN FoodInfo(180, 80)
    ELSE IF AnyIn(BerryKeywords, food_name) THEN FoodInfo(100, 45)
    ELSE FoodInfo(200, 200)

\* variant without the plausibility check
OutOfRangeUnchecked(weight, calories) == FALSE

\* not (50 <= weight <= 1000) or not (20 <= calories <= 1000)
OutOfRange(weight, calories) ==
    ~(50 <= weight /\ weight <= 1000) \/ ~(20 <= calories /\ calories <= 1000)

\* variant that assigns the two runs the other way round
ExtractNumbersSwapped(response_text) ==
    LET numbers == FindAllDigits(response_text, 1)
    IN  IF Len(numbers) >= 2
        THEN [exc |-> "none",
              val |-> [t |-> "dict",
                       v |-> <<[k |-> <<"w", "e", "i", "g", "h", "t">>,
                                v |-> [t |-> "str", v |-> numbers[2]]],
                               [k |-> <<"c", "a", "l", "o", "r", "i", "e", "s">>,
                                v |-> [t |-> "str", v |-> numbers[1]]]>>]]
        ELSE ValueError

\* the numbers taken from the text when json.loads fails: the first two
\* runs of digits, as strings, or ValueError
ExtractNumbers(response_text) ==
    LET numbers == FindAllDigits(response_text, 1)
    IN  IF Len(numbers) >= 2
        THEN [exc |-> "none",
              val |-> [t |-> "dict",
                       v |-> <<[k |-> <<"w", "e", "i", "g", "h", "t">>,
                                v |-> [t |-> "str", v |-> numbers[1]]],
                               [k |-> <<"c", "a", "l", "o", "r", "i", "e", "s">>,
                                v |-> [t |-> "str", v |-> numbers[2]]]>>]]
        ELSE ValueError

\* int(str(result[key]).replace('"', ''))
IntField(result, key) ==
    LET Convert(item) ==
            IF item.exc # "none" THEN item
            ELSE PyInt(Remove(PyStr(item.val, FALSE), "\""))
    IN  Convert(GetItem(result, key))

\* the inner try block: the parsed pair, or the exception raised
ParseResponse(text) ==
    LET Checked(weight, calories) ==
            IF calories.exc # "none" THEN calories
            ELSE IF OutOfRange(weight.v, calories.v) THEN ValueError
            ELSE [exc |-> "none", info |-> FoodInfo(weight.v, calories.v)]
        WithWeight(result, weight) ==
            IF weight.exc # "none" THEN weight
            ELSE Checked(weight,
                         IntField(result.val, <<"c", "a", "l", "o", "r", "i", "e", "s">>))
        WithResult(result) ==
            IF result.exc # "none" THEN result
            ELSE WithWeight(result,
                            IntField(result.val, <<"w", "e", "i", "g", "h", "t">>))
        Loaded(response_text, loaded) ==
            WithResult(IF loaded.exc = "none" THEN loaded
                       ELSE ExtractNumbers(response_text))
        Cleaned(response_text) == Loaded(response_text, json_loads(response_text))
    IN  IF text = <<>> THEN ValueError
        ELSE Cleaned(Strip(Remove(Remove(text, "\n"), "\r")))

estimate_food_info_from_image(ai, food_name) ==
    LET Outcome(r) ==
            IF r.exc = "none" THEN r.info
            ELSE IF r.exc \in {"JSONDecodeError", "ValueError", "KeyError"}
                 THEN DefaultInfo(food_name)
            ELSE FoodInfo(200, 200)
    IN  IF ai.kind = "raise" THEN FoodInfo(200, 200)
        ELSE Outcome(ParseResponse(Strip(ai.content)))

(***************************************************************************)
(* identify_with_baidu                                                     *)
(* The reply of one recognizer is [kind |-> "raise"] when requests.post or *)
(* response.json() raises, otherwise [kind |-> "json", body |-> b] where b *)
(* is the decoded object: a record that may or may not have a "result"     *)
(* field holding the list of candidates, each a record of its own fields.  *)
(***************************************************************************)
\* '非菜'
NotDish == <<"fei", "cai">>

\* '非果蔬食材'
NotIngredient == <<"fei", "guo", "shu", "shi", "cai2">>

\* food_keywords of the general stage
food_keywords ==
    { <<"shi", "wu">>, <<"shui", "guo">>, <<"shu", "cai">>, <<"ling", "shi">>,
      <<"yin", "liao">>, <<"tian", "dian">>, <<"mian", "bao">>, <<"gao", "dian">>,
      <<"jian", "guo">>, <<"gan", "guo">>, <<"shi", "cai2">>, <<"zhu", "shi">>,
      <<"xiao", "chi">>, <<"tang", "guo">>, <<"gua">>, <<"guo">>, <<"cai">>,
      <<"rou">>, <<"yu">>, <<"xia">>, <<"dan">>, <<"nai">> }

NoHit == [hit |-> FALSE]

Hit(name, confidence, is_food) ==
    [hit |-> TRUE,
     result |-> [name |-> name, confidence |-> confidence, is_food |-> is_food]]

\* 'result' in result and len(result['result']) > 0
HasResult(resp) ==
    /\ resp.kind = "json"
    /\ "result" \in DOMAIN resp.body
    /\ Len(resp.body.result) > 0

\* a stage with a sentinel: the top candidate's label under 'name' and its
\* confidence under confKey; a missing field raises KeyError inside the try
SentinelStage(resp, sentinel, confKey) ==
    IF ~HasResult(resp) THEN NoHit
    ELSE LET food_info == resp.body.result[1] IN
         IF "name" \notin DOMAIN food_info THEN NoHit
         ELSE IF food_info.name = sentinel THEN NoHit
         ELSE IF confKey \notin DOMAIN food_info THEN NoHit
         ELSE Hit(food_info.name, food_info[confKey], TRUE)

\* 1. dish recognition
DishStage(resp) == SentinelStage(resp, NotDish, "probability")

\* 2. ingredient recognition
IngredientStage(resp) == SentinelStage(resp, NotIngredient, "score")

\* 3. general object recognition: the top keyword, food or not
GeneralStage(resp) ==
    IF ~HasResult(resp) THEN NoHit
    ELSE LET first_result == resp.body.result[1] IN
         IF "keyword" \notin DOMAIN first_result THEN NoHit
         ELSE LET keyword == first_result.keyword
                  root    == IF "root" \in DOMAIN first_result
                             THEN first_result.root ELSE <<>>
                  is_food == \E kw \in food_keywords :
                                 Contains(keyword, kw) \/ Contains(root, kw)
              IN  IF "score" \notin DOMAIN first_result THEN NoHit
                  ELSE Hit(keyword, first_result.score, is_food)

\* variant that calls every recognizer before it picks the result
identify_with_baidu_all_stages(r1, r2, r3) ==
    LET s1 == DishStage(r1)
        s2 == IngredientStage(r2)
        s3 == GeneralStage(r3)
        calls == <<"dish", "ingredient", "general">>
    IN  IF s1.hit THEN [exc |-> "none", result |-> s1.result, calls |-> calls]
        ELSE IF s2.hit THEN [exc |-> "none", result |-> s2.result, calls |-> calls]
        ELSE IF s3.hit THEN [exc |-> "none", result |-> s3.result, calls |-> calls]
        ELSE [exc |-> "ValueError", calls |-> calls]

\* the cascade: the classification or ValueError, and the recognizers that
\* were called, in order
identify_with_baidu(r1, r2, r3) ==
    LET s1 == DishStage(r1) IN
    IF s1.hit THEN [exc |-> "none", result |-> s1.result, calls |-> <<"dish">>]
    ELSE LET s2 == IngredientStage(r2) IN
         IF s2.hit
         THEN [exc |-> "none", result |-> s2.result, calls |-> <<"dish", "ingredient">>]
         ELSE LET s3 == GeneralStage(r3) IN
              IF s3.hit
              THEN [exc |-> "none", result |-> s3.result,
                    calls |-> <<"dish", "ingredient", "general">>]
              ELSE [exc |-> "ValueError",
                    calls |-> <<"dish", "ingredient", "general">>]

(***************************************************************************)
(* The HTTP handlers                                                       *)
(***************************************************************************)
None == [none |-> TRUE]

Some(x) == [none |-> FALSE, v |-> x]

\* variant that keeps an entry that is already there
DictSetIfAbsent(d, k, v) ==
    [x \in DOMAIN d \cup {k} |-> IF x \in DOMAIN d THEN d[x] ELSE v]

\* d[k] = v on a dict d
DictSet(d, k, v) == [x \in DOMAIN d \cup {k} |-> IF x = k THEN v ELSE d[x]]

\* variant that answers a default on a miss
DictGetOrDefault(d, k) == Some(IF k \in DOMAIN d THEN d[k] ELSE FoodInfo(200, 200))

\* d.get(k)
DictGet(d, k) == IF k \in DOMAIN d THEN Some(d[k]) ELSE None

Response(status, body) == [status |-> status, body |-> body]

\* '没有文件'
ErrNoFile == "meiyou wenjian"

\* '没有选择文件'
ErrNoFilename == "meiyou xuanze wenjian"

\* str(e) of the exception raised by get_baidu_access_token
ErrToken == "token request failed"

\* str(ValueError("无法识别物体"))
ErrUnrecognised == "wufa shibie wuti"

\* "这个不能吃哦"
NotEdible == "zhege buneng chi o"

\* '未提供食物名称'
ErrNoName == "wei tigong shiwu mingcheng"

\* '未提供有效重量'
ErrNoWeight == "wei tigong youxiao zhongliang"

\* '重量格式无效'
ErrWeightFormat == "zhongliang geshi wuxiao"

\* '重量必须大于0'
ErrWeightNotPositive == "zhongliang bixu dayu 0"

\* '未找到食物信息'
ErrNotFound == "wei zhaodao shiwu xinxi"

\* str(ZeroDivisionError)
ErrZeroDivision == "float division by zero"

\* variant that takes every classification for food
IsFoodAlways(result) == TRUE

\* is_food = result['is_food'], tested by `if is_food:`
IsFood(result) == result.is_food

\* identify_food up to the cache store.  file is None when the form has no
\* food_image field, else Some(filename); token_ok is whether
\* get_baidu_access_token returned.  The outcome is either a finished
\* response or the handler's locals on reaching the store.
identify_food(file, token_ok, r1, r2, r3, ai) ==
    IF file.none
    THEN [done |-> TRUE, recognized |-> None, estimated |-> FALSE,
          response |-> Response(400, [error |-> ErrNoFile])]
    ELSE IF file.v = <<>>
    THEN [done |-> TRUE, recognized |-> None, estimated |-> FALSE,
          response |-> Response(400, [error |-> ErrNoFilename])]
    ELSE IF ~token_ok
    THEN [done |-> TRUE, recognized |-> None, estimated |-> FALSE,
          response |-> Response(500, [error |-> ErrToken])]
    ELSE LET Estimated(result, rec, food_info) ==
                 [done |-> FALSE, recognized |-> rec, estimated |-> TRUE,
                  food_name |-> result.name, food_info |-> food_info,
                  response |-> Response(200,
                      [name |-> result.name, confidence |-> result.confidence,
                       weight |-> food_info.weight,
                       calories |-> food_info.calories])]
             Classified(result, rec) ==
                 IF IsFood(result)
                 THEN Estimated(result, rec,
                                estimate_food_info_from_image(ai, result.name))
                 ELSE [done |-> TRUE, recognized |-> rec, estimated |-> FALSE,
                       response |-> Response(200,
                           [name |-> result.name, confidence |-> result.confidence,
                            message |-> NotEdible])]
             Recognized(out) ==
                 IF out.exc # "none"
                 THEN [done |-> TRUE, recognized |-> Some([exc |-> out.exc]),
                       estimated |-> FALSE,
                       response |-> Response(500, [error |-> ErrUnrecognised])]
                 ELSE Classified(out.result,
                                 Some([exc |-> "none", is_food |-> out.result.is_food]))
         IN  Recognized(identify_with_baidu(r1, r2, r3))

\* float(weight) for the modelled query strings: integer literals convert
\* exactly; literals with a decimal point or an exponent, inf and nan are
\* not among the modelled inputs
PyFloat(s) == PyInt(s)

Abs(n) == IF n < 0 THEN -n ELSE n

\* int((weight / original_weight) * original_calories), or the exception
Rescale(weight, food_info) ==
    LET original_weight   == food_info.weight
        original_calories == food_info.calories
        negative == (original_weight < 0) # (original_calories < 0)
        Signed(adjusted) == [exc |-> "none", v |-> IF negative THEN -adjusted ELSE adjusted]
    IN  IF original_weight = 0 THEN [exc |-> "ZeroDivisionError"]
        ELSE IF original_calories = 0 THEN [exc |-> "none", v |-> 0]
        ELSE Signed(FTrunc(FMul(FDiv(weight, Abs(original_weight)),
                                Abs(original_calories))))

\* get_calories up to and including the cache lookup.  An absent query
\* parameter is None.
get_calories(foodName, weight, food_info_cache) ==
    IF foodName.none \/ foodName.v = <<>>
    THEN [done |-> TRUE, response |-> Response(400, [error |-> ErrNoName, calories |-> 0])]
    ELSE IF weight.none \/ weight.v = <<>> \/ weight.v = <<"u", "n", "d", "e", "f", "i", "n", "e", "d">>
    THEN [done |-> TRUE, response |-> Response(400, [error |-> ErrNoWeight, calories |-> 0])]
    ELSE LET w == PyFloat(weight.v) IN
         IF w.exc # "none"
         THEN [done |-> TRUE,
               response |-> Response(400, [error |-> ErrWeightFormat, calories |-> 0])]
         ELSE IF w.v <= 0
         THEN [done |-> TRUE,
               response |-> Response(400, [error |-> ErrWeightNotPositive, calories |-> 0])]
         ELSE LET food_info == DictGet(food_info_cache, foodName.v) IN
              IF food_info.none
              THEN [done |-> TRUE,
                    response |-> Response(400, [error |-> ErrNotFound, calories |-> 0])]
              ELSE [done |-> FALSE, weight |-> w.v, food_info |-> food_info.v]

\* the rest of get_calories on a cache hit
adjusted_calories(weight, food_info) ==
    LET Answer(r) ==
            IF r.exc = "none" THEN Response(200, [calories |-> r.v])
            ELSE Response(400, [error |-> ErrZeroDivision, calories |-> 0])
    IN  Answer(Rescale(weight, food_info))

(***************************************************************************)
(* State                                                                   *)
(***************************************************************************)
VARIABLES
    food_info_cache,  \* the module-level dict: label -> FoodInfo
    inflight,         \* the handlers that are between two steps, as a bag
    last,             \* the request that finished last, with its response
    identified,       \* history: label -> the estimate that the latest
                      \* /identify which stored under the label responded with
    est,              \* one call of estimate_food_info_from_image
    casc              \* one call of identify_with_baidu

vars == <<food_info_cache, inflight, last, identified, est, casc>>

\* the number of requests that may be in progress at once
MaxInFlight == 2

\* /calories is asked about the small weights 2..MaxSmallWeight grams
MaxSmallWeight == 2

\* the longest generated reply of the chat model, in characters
MaxTextLen == 5

Text(content) == [kind |-> "text", content |-> content]

Raise == [kind |-> "raise"]

Json(body) == [kind |-> "json", body |-> body]

MiFan == <<"mi", "fan">>                  \* 米饭, a staple

NiuRouMian == <<"niu", "rou", "mian">>    \* 牛肉面, a staple that names a meat

JiRou == <<"ji", "rou">>                  \* 鸡肉, a meat

QingCai == <<"qing", "cai">>              \* 青菜, a vegetable

PingGuo == <<"ping", "guo">>              \* 苹果, a fruit

CaoMei == <<"cao", "mei">>                \* 草莓, a berry

ZhuoZi == <<"zhuo", "zi">>                \* 桌子, a table

Idle == [pc |-> "idle"]

(***************************************************************************)
(* The server: POST /identify and GET /calories.  Flask serves requests    *)
(* on concurrent threads; a handler's remote calls take long, so other     *)
(* requests run between its steps.  Each handler touches the shared dict   *)
(* once: /identify by the store, /calories by the lookup.                  *)
(***************************************************************************)
\* the multipart field food_image: absent, with an empty filename, or a file
Files == {None, Some(<<>>), Some(<<"a", ".", "j", "p", "g">>)}

DishReplies ==
    { Raise,
      Json([result |-> <<[name |-> NotDish, probability |-> 90]>>]),
      Json([result |-> <<[name |-> MiFan, probability |-> 90]>>]) }

IngredientReplies ==
    { Json([result |-> <<>>]),
      Json([result |-> <<[name |-> NotIngredient, score |-> 80]>>]),
      Json([result |-> <<[name |-> PingGuo, score |-> 80]>>]) }

GeneralReplies ==
    { Raise,
      Json([error_code |-> 110]),
      Json([result |-> <<[keyword |-> PingGuo, score |-> 80, root |-> <<"shang", "pin">>]>>]),
      Json([result |-> <<[keyword |-> MiFan, score |-> 90]>>]) }

\* {"weight":100,"calories":57} and {"weight":0,"calories":350}
ChatReplies ==
    { Text(<<"{", "\"", "w", "e", "i", "g", "h", "t", "\"", ":", "1", "0",
           "0", ",", "\"", "c", "a", "l", "o", "r", "i", "e", "s", "\"",
           ":", "5", "7", "}">>),
      Text(<<"{", "\"", "w", "e", "i", "g", "h", "t", "\"", ":", "0", ",",
           "\"", "c", "a", "l", "o", "r", "i", "e", "s", "\"", ":", "3",
           "5", "0", "}">>) }

\* what identify_food does on each combination of the inputs above
IdentifyOutcomes ==
    { identify_food(file, token_ok, r1, r2, r3, ai) :
          file \in Files, token_ok \in BOOLEAN, r1 \in DishReplies,
          r2 \in IngredientReplies, r3 \in GeneralReplies, ai \in ChatReplies }

\* the query parameter foodName
FoodNames == {None, Some(<<>>), Some(MiFan), Some(PingGuo), Some(CaoMei)}

\* the query parameter weight
Weights ==
    {None, Some(<<>>), Some(<<"u", "n", "d", "e", "f", "i", "n", "e", "d">>),
     Some(<<"a", "b", "c">>), Some(<<"0">>), Some(<<"-", "5">>)}
    \cup {Some(IntStr(w)) : w \in 2..MaxSmallWeight \cup {250}}

\* history: the weight asked about when the query string holds a positive
\* number, None otherwise
AskedWeight(weight) ==
    IF weight.none THEN None
    ELSE LET w == PyFloat(weight.v) IN
         IF w.exc = "none" /\ w.v > 0 THEN Some(w.v) ELSE None

\* history: the estimate of the latest /identify that stored under the label
LatestIdentified(foodName) ==
    IF ~foodName.none /\ foodName.v \in DOMAIN identified
    THEN Some(identified[foodName.v]) ELSE None

NoRequest == [op |-> "none"]

InitServer ==
    /\ food_info_cache = <<>>
    /\ inflight = EmptyBag
    /\ last = NoRequest
    /\ identified = <<>>

\* POST /identify, from the request to the reply of the estimator
IdentifyBegin ==
    /\ BagCardinality(inflight) < MaxInFlight
    /\ \E h \in IdentifyOutcomes :
          IF h.done
          THEN /\ last' = [op |-> "identify", recognized |-> h.recognized,
                           estimated |-> h.estimated, response |-> h.response]
               /\ UNCHANGED inflight
          ELSE /\ inflight' = inflight (+) SetToBag({[op |-> "identify", h |-> h]})
               /\ UNCHANGED last
    /\ UNCHANGED <<food_info_cache, identified, est, casc>>

\* POST /identify: food_info_cache[food_name] = food_info, and the response
IdentifyStore ==
    /\ \E f \in BagToSet(inflight) :
          /\ f.op = "identify"
          /\ food_info_cache' = DictSet(food_info_cache, f.h.food_name, f.h.food_info)
          /\ identified' =
                 [l \in DOMAIN identified \cup {f.h.response.body.name} |->
                     IF l = f.h.response.body.name
                     THEN FoodInfo(f.h.response.body.weight, f.h.response.body.calories)
                     ELSE identified[l]]
          /\ last' = [op |-> "identify", recognized |-> f.h.recognized,
                      estimated |-> f.h.estimated, response |-> f.h.response]
          /\ inflight' = inflight (-) SetToBag({f})
    /\ UNCHANGED <<est, casc>>

\* GET /calories, from the request to the cache lookup
CaloriesBegin ==
    /\ BagCardinality(inflight) < MaxInFlight
    /\ \E foodName \in FoodNames, weight \in Weights :
          LET h == get_calories(foodName, weight, food_info_cache)
              q == [op |-> "calories", foodName |-> foodName,
                    asked |-> AskedWeight(weight),
                    seen |-> LatestIdentified(foodName)]
          IN
          IF h.done
          THEN /\ last' = q @@ [entry |-> None, response |-> h.response]
               /\ UNCHANGED inflight
          ELSE /\ inflight' = inflight (+) SetToBag({q @@ [h |-> h]})
               /\ UNCHANGED last
    /\ UNCHANGED <<food_info_cache, identified, est, casc>>

\* GET /calories: the rescale of the entry that was looked up
CaloriesRescale ==
    /\ \E f \in BagToSet(inflight) :
          /\ f.op = "calories"
          /\ last' = [op |-> "calories", foodName |-> f.foodName, asked |-> f.asked,
                      seen |-> f.seen, entry |-> Some(f.h.food_info),
                      response |-> adjusted_calories(f.h.weight, f.h.food_info)]
          /\ inflight' = inflight (-) SetToBag({f})
    /\ UNCHANGED <<food_info_cache, identified, est, casc>>

Next == IdentifyBegin \/ IdentifyStore \/ CaloriesBegin \/ CaloriesRescale

Init == InitServer /\ est = Idle /\ casc = Idle

Spec == Init /\ [][Next]_vars

(***************************************************************************)
(* The estimator on its own: every reply below, for every label            *)
(***************************************************************************)
\* {"weight":1500,"calories":350}: weight above the range
ReplyWeight1500 ==
    Text(<<"{", "\"", "w", "e", "i", "g", "h", "t", "\"", ":", "1", "5",
         "0", "0", ",", "\"", "c", "a", "l", "o", "r", "i", "e", "s",
         "\"", ":", "3", "5", "0", "}">>)

\* "约250克，350卡": narrative with two numbers
ReplyNarrative ==
    Text(<<"yue", "2", "5", "0", "ke", "douhao", "3", "5", "0", "ka">>)

ScenarioReplies ==
    { Raise,
      \* the reply that was asked for
      Text(<<"{", "\"", "w", "e", "i", "g", "h", "t", "\"", ":", "2", "5",
           "0", ",", "\"", "c", "a", "l", "o", "r", "i", "e", "s", "\"",
           ":", "3", "5", "0", "}">>),
      \* the numbers in quotes
      Text(<<"{", "\"", "w", "e", "i", "g", "h", "t", "\"", ":", " ", "\"",
           "1", "8", "0", "\"", ",", " ", "\"", "c", "a", "l", "o", "r",
           "i", "e", "s", "\"", ":", " ", "\"", "2", "8", "0", "\"", "}">>),
      \* a quoted number inside a string
      Text(<<"{", "\"", "w", "e", "i", "g", "h", "t", "\"", ":", "\"", "\\",
           "\"", "1", "2", "0", "\\", "\"", "\"", ",", "\"", "c", "a",
           "l", "o", "r", "i", "e", "s", "\"", ":", "5", "0", "}">>),
      ReplyWeight1500,
      \* calories below the range
      Text(<<"{", "\"", "w", "e", "i", "g", "h", "t", "\"", ":", "2", "5",
           "0", ",", "\"", "c", "a", "l", "o", "r", "i", "e", "s", "\"",
           ":", "1", "9", "}">>),
      \* a float
      Text(<<"{", "\"", "w", "e", "i", "g", "h", "t", "\"", ":", "2", "5",
           "0", ".", "5", ",", "\"", "c", "a", "l", "o", "r", "i", "e",
           "s", "\"", ":", "3", "5", "0", "}">>),
      \* null
      Text(<<"{", "\"", "w", "e", "i", "g", "h", "t", "\"", ":", "n", "u",
           "l", "l", ",", "\"", "c", "a", "l", "o", "r", "i", "e", "s",
           "\"", ":", "3", "5", "0", "}">>),
      \* no calories member
      Text(<<"{", "\"", "w", "e", "i", "g", "h", "t", "\"", ":", "2", "5",
           "0", "}">>),
      \* valid JSON that is not an object
      Text(<<"2", "5", "0">>),
      \* valid JSON, a list
      Text(<<"[", "2", "5", "0", ",", "3", "5", "0", "]">>),
      \* truncated JSON
      Text(<<"{", "\"", "w", "e", "i", "g", "h", "t", "\"", ":", " ", "1",
           "0", "0", ",", " ", "\"", "c", "a", "l", "o", "r", "i", "e",
           "s", "\"", ":", " ", "4", "5">>),
      ReplyNarrative,
      \* narrative with one number
      Text(<<"yue", "2", "5", "0", "ke">>),
      \* narrative without a number
      Text(<<"bao2", "qian">>),
      \* narrative, weight above the range
      Text(<<"yue", "1", "5", "0", "0", "ke", "douhao", "3", "5", "0", "ka">>),
      \* a line break between the two numbers
      Text(<<"yue", "2", "5", "0", "\n", "ke", "3", "5", "0", "ka">>),
      \* a line break inside a number
      Text(<<"yue", "2", "5", "\n", "0", "ke", "douhao", "3", "5", "0",
           "ka">>),
      \* blank
      Text(<<" ", "\n">>) }

\* the characters of the generated replies: two digits, a unit (克), a blank
\* and a line break
Alphabet == {"5", "0", "ke", " ", "\n"}

GeneratedReplies ==
    {Text(t) : t \in UNION {[1..n -> Alphabet] : n \in 0..MaxTextLen}}

EstimatorReplies == ScenarioReplies \cup GeneratedReplies

\* one label per keyword bucket, and one that is in two buckets
Labels == {MiFan, NiuRouMian, JiRou, QingCai, PingGuo, CaoMei, ZhuoZi}

InitEstimator ==
    /\ InitServer
    /\ casc = Idle
    /\ est \in {[pc |-> "call", ai |-> ai, food_name |-> l] :
                    ai \in EstimatorReplies, l \in Labels}

Estimate ==
    /\ est.pc = "call"
    /\ est' = [pc |-> "return", ai |-> est.ai, food_name |-> est.food_name,
               food_info |-> estimate_food_info_from_image(est.ai, est.food_name)]
    /\ UNCHANGED <<food_info_cache, inflight, last, identified, casc>>

NextEstimator == Estimate

SpecEstimator == InitEstimator /\ [][NextEstimator]_vars

(***************************************************************************)
(* The cascade on its own: every combination of the replies below          *)
(***************************************************************************)
CascadeDishReplies ==
    DishReplies \cup
    { Json([error_code |-> 110]),
      Json([result |-> <<>>]),
      Json([result |-> <<[name |-> MiFan, probability |-> 90],
                         [name |-> NotDish, probability |-> 5]>>]),
      Json([result |-> <<[name |-> MiFan]>>]),
      Json([result |-> <<[probability |-> 90]>>]),
      Json([result |-> <<[name |-> NotIngredient, probability |-> 70]>>]) }

CascadeIngredientReplies ==
    IngredientReplies \cup
    { Raise,
      Json([error_code |-> 110]),
      Json([result |-> <<[name |-> PingGuo]>>]),
      Json([result |-> <<[name |-> NotDish, score |-> 70]>>]) }

CascadeGeneralReplies ==
    GeneralReplies \cup
    { Json([result |-> <<>>]),
      Json([result |-> <<[keyword |-> ZhuoZi, score |-> 60, root |-> <<"jia", "ju">>]>>]),
      Json([result |-> <<[keyword |-> MiFan, score |-> 60, root |-> <<"shi", "wu">>]>>]),
      Json([result |-> <<[keyword |-> ZhuoZi, root |-> <<"jia", "ju">>]>>]),
      Json([result |-> <<[score |-> 60, root |-> <<"shi", "wu">>]>>]),
      Json([result |-> <<[keyword |-> NotDish, score |-> 60, root |-> <<>>]>>]) }

InitCascade ==
    /\ InitServer
    /\ est = Idle
    /\ casc \in {[pc |-> "call", r1 |-> r1, r2 |-> r2, r3 |-> r3] :
                     r1 \in CascadeDishReplies, r2 \in CascadeIngredientReplies,
                     r3 \in CascadeGeneralReplies}

Classify ==
    /\ casc.pc = "call"
    /\ casc' = [pc |-> "return", r1 |-> casc.r1, r2 |-> casc.r2, r3 |-> casc.r3,
                out |-> identify_with_baidu(casc.r1, casc.r2, casc.r3)]
    /\ UNCHANGED <<food_info_cache, inflight, last, identified, est>>

NextCascade == Classify

SpecCascade == InitCascade /\ [][NextCascade]_vars

(***************************************************************************)
(* Properties of the server (Spec)                                         *)
(***************************************************************************)
\* a finished GET /calories with a name and a positive weight, for a label
\* under which no /identify had stored when the cache was looked up
CaloriesMiss ==
    /\ last.op = "calories"
    /\ ~last.foodName.none /\ last.foodName.v # <<>>
    /\ ~last.asked.none
    /\ last.seen.none

\* C1: GET /calories with a non-empty foodName and a positive weight, for a
\* label that no earlier /identify classified as food, answers 400 with an
\* error and calories = 0, never a defaulted value, and creates no entry.
C1_MissIsNotFound ==
    /\ [](CaloriesMiss =>
            /\ last.response.status = 400
            /\ "error" \in DOMAIN last.response.body
            /\ last.response.body.calories = 0
            /\ last.foodName.v \notin DOMAIN food_info_cache)
    /\ [][(last' # last /\ CaloriesMiss') => food_info_cache' = food_info_cache]_vars

\* a miss for a label the cascade can return, after other requests stored
C1_Witness ==
    /\ CaloriesMiss
    /\ last.foodName.v = PingGuo
    /\ DOMAIN food_info_cache = {MiFan}
    /\ last.response.status = 400

\* a finished POST /identify on which the cascade raised
RecognitionFailed ==
    /\ last.op = "identify"
    /\ ~last.recognized.none
    /\ last.recognized.v.exc = "ValueError"

\* C2: when all three recognizer stages error or return nothing, the
\* response of /identify is HTTP 400 with an error key (not 500).
C2_RecognitionFailedIs400 ==
    RecognitionFailed =>
        /\ last.response.status = 400
        /\ "error" \in DOMAIN last.response.body

\* round(n / d) for positive integers: to the nearest integer, a tie to the
\* even one
RoundNearest(n, d) ==
    LET q == n \div d
        r == n % d
    IN  IF 2 * r < d THEN q
        ELSE IF 2 * r > d THEN q + 1
        ELSE IF q % 2 = 0 THEN q ELSE q + 1

\* C3: for every cached entry and every requested weight w > 0, /calories
\* returns round(cachedCalories * w / cachedWeight), rounded to the nearest
\* integer, not truncated.
C3_RescaleRounds ==
    (last.op = "calories" /\ ~last.entry.none /\ ~last.asked.none) =>
        last.response =
            Response(200, [calories |->
                RoundNearest(last.entry.v.calories * last.asked.v, last.entry.v.weight)])

\* a finished GET /calories that asked about exactly the weight which the
\* latest /identify of the label had responded with
AskedAtCachedPoint ==
    /\ last.op = "calories"
    /\ ~last.seen.none
    /\ ~last.asked.none
    /\ last.asked.v = last.seen.v.weight

\* C4: if the most recent /identify that classified label L as food returned
\* (W, C), then GET /calories?foodName=L&weight=W returns exactly C,
\* whatever was stored for L earlier or is stored for other labels.
C4_IdentityAtCachedPoint ==
    AskedAtCachedPoint =>
        last.response = Response(200, [calories |-> last.seen.v.calories])

\* the identity with calories that differ from the weight, while another
\* label is cached too
C4_Witness ==
    /\ AskedAtCachedPoint
    /\ last.response.status = 200
    /\ last.seen.v = FoodInfo(250, 350)
    /\ DOMAIN food_info_cache = {MiFan, PingGuo}

\* a finished POST /identify whose classification is not food
NotFood(l) ==
    /\ l.op = "identify"
    /\ ~l.recognized.none
    /\ l.recognized.v.exc = "none"
    /\ ~l.recognized.v.is_food

\* a finished POST /identify whose classification is food
IsFoodResponse(l) ==
    /\ l.op = "identify"
    /\ ~l.recognized.none
    /\ l.recognized.v.exc = "none"
    /\ l.recognized.v.is_food
    /\ l.response.status = 200

\* C9: a /identify classified as not food returns 200 with name, confidence
\* and the message, without weight or calories, never calls the estimator
\* and leaves the cache unchanged; the cache is written only by a /identify
\* classified as food, and exactly under the returned label.
C9_NotFoodLeavesCache ==
    /\ [](NotFood(last) =>
            /\ last.response.status = 200
            /\ DOMAIN last.response.body = {"name", "confidence", "message"}
            /\ last.response.body.message = NotEdible
            /\ ~last.estimated)
    /\ [][/\ (last' # last /\ NotFood(last')) => food_info_cache' = food_info_cache
          /\ food_info_cache' # food_info_cache =>
                /\ IsFoodResponse(last')
                /\ LET body == last'.response.body IN
                   food_info_cache' =
                       [l \in DOMAIN food_info_cache \cup {body.name} |->
                           IF l = body.name THEN FoodInfo(body.weight, body.calories)
                           ELSE food_info_cache[l]]]_vars

\* a label classified as not food while an entry is cached under it
C9_Witness ==
    /\ NotFood(last)
    /\ last.response.body.name = MiFan
    /\ MiFan \in DOMAIN food_info_cache

\* the pairs one call of the estimator can return, by label
EstimatesFor ==
    [l \in Labels |-> {estimate_food_info_from_image(ai, l) : ai \in ChatReplies}]

\* a whole, plausible pair of one estimator call
WholeEstimate(info, l) ==
    /\ info \in EstimatesFor[l]
    /\ info.weight \in 50..1000
    /\ info.calories \in 20..1000

\* a step of a GET /calories handler
CaloriesStep ==
    \/ last' # last /\ last'.op = "calories"
    \/ \E f \in BagToSet(inflight) \cup BagToSet(inflight') :
          f.op = "calories" /\ CopiesIn(f, inflight) # CopiesIn(f, inflight')

\* C10: under any interleaving of /identify and /calories requests every
\* cache entry, and every entry a /calories handler holds, is a whole
\* (weight, calories) pair of a single estimator call with weight in
\* [50,1000] and calories in [20,1000]; the rescale never divides by zero,
\* and /calories never modifies the cache.
C10_CacheEntriesWhole ==
    /\ [](/\ \A l \in DOMAIN food_info_cache : WholeEstimate(food_info_cache[l], l)
          /\ \A f \in BagToSet(inflight) :
                f.op = "calories" => WholeEstimate(f.h.food_info, f.foodName.v)
          /\ (last.op = "calories" /\ ~last.entry.none) =>
                /\ WholeEstimate(last.entry.v, last.foodName.v)
                /\ last.response.status = 200)
    /\ [][CaloriesStep => food_info_cache' = food_info_cache]_vars

\* a /calories handler holds an entry while a /identify handler is about to
\* overwrite it with another estimate
C10_Witness ==
    \E f, g \in BagToSet(inflight) :
        /\ f.op = "calories" /\ g.op = "identify"
        /\ g.h.food_name = f.foodName.v
        /\ g.h.food_info # f.h.food_info
        /\ food_info_cache[f.foodName.v] = f.h.food_info

(***************************************************************************)
(* Properties of the estimator (SpecEstimator)                             *)
(***************************************************************************)
\* C5: for every remote outcome the estimator returns a pair with weight in
\* [50,1000] and calories in [20,1000]; a parsed value outside those bounds
\* is replaced by a default, never returned.
C5_EstimateInRange ==
    est.pc = "return" =>
        /\ est.food_info.weight \in 50..1000
        /\ est.food_info.calories \in 20..1000

\* the reply with weight 1500 for a fruit: the fruit default comes back
C5_Witness ==
    /\ est.pc = "return"
    /\ est.ai = ReplyWeight1500
    /\ est.food_name = PingGuo
    /\ est.food_info = FoodInfo(180, 80)

\* the estimation failed: the remote call raised, or the reply was empty,
\* could not be parsed or held values out of range
EstimationFailed(ai) ==
    \/ ai.kind = "raise"
    \/ ai.kind = "text" /\ ParseResponse(Strip(ai.content)).exc # "none"

\* the defaults of the keyword buckets, first matching bucket first
BucketDefaults(food_name) ==
    IF AnyIn(GrainKeywords, food_name) THEN {FoodInfo(w, 350) : w \in {250, 300}}
    ELSE IF AnyIn(MeatKeywords, food_name)
         THEN {FoodInfo(w, c) : w \in 180..200, c \in 250..280}
    ELSE IF AnyIn(VegetableKeywords, food_name) THEN {FoodInfo(w, 50) : w \in 120..150}
    ELSE IF AnyIn(FruitKeywords, food_name) THEN {FoodInfo(w, 80) : w \in 180..200}
    ELSE IF AnyIn(BerryKeywords, food_name) THEN {FoodInfo(100, 45)}
    ELSE {FoodInfo(200, 200)}

\* C6: on any estimation failure the default of the label's keyword bucket
\* is returned; for a label with a grain keyword that is weight in
\* {250,300} and calories 350, whatever kind of failure triggered it.
C6_FailureUsesBucketDefault ==
    (est.pc = "return" /\ EstimationFailed(est.ai)) =>
        est.food_info \in BucketDefaults(est.food_name)

\* the indices at which a run of digits starts
RunStarts(s) ==
    {i \in 1..Len(s) : s[i] \in Digit /\ (i = 1 \/ s[i - 1] \notin Digit)}

\* the number written by the run of digits that starts at index i
RunValue(s, i) ==
    LET j == CHOOSE k \in i..Len(s) :
                 /\ \A m \in i..k : s[m] \in Digit
                 /\ (k = Len(s) \/ s[k + 1] \notin Digit)
    IN  DigitsVal(SubSeq(s, i, j))

Answered(reply, labelKey, confKey) ==
    /\ reply.kind = "json"
    /\ "result" \in DOMAIN reply.body
    /\ reply.body.result # <<>>
    /\ {labelKey, confKey} \subseteq DOMAIN reply.body.result[1]

\* the stage yields the result of the cascade
Usable(stage) ==
    CASE stage = 1 -> /\ Answered(casc.r1, "name", "probability")
                      /\ casc.r1.body.result[1].name # NotDish
      [] stage = 2 -> /\ Answered(casc.r2, "name", "score")
                      /\ casc.r2.body.result[1].name # NotIngredient
      [] stage = 3 -> Answered(casc.r3, "keyword", "score")

\* C7: the result comes from the first stage, in the order dish, ingredient,
\* general, that returns a non-empty list whose top label is not the
\* stage's sentinel, and no later stage is called; a stage that raises or
\* returns nothing or its sentinel falls through to the next one.  Stage 1
\* returning '非菜' and stage 2 a valid ingredient yields the stage-2 label
\* with is_food = true, and stage 3 is not called.
C7_CascadeOrderedShortCircuit ==
    casc.pc = "return" =>
        LET stages == <<"dish", "ingredient", "general">>
            out    == casc.out
        IN  IF Usable(1)
            THEN /\ out.exc = "none" /\ out.calls = SubSeq(stages, 1, 1)
                 /\ out.result = [name |-> casc.r1.body.result[1].name,
                                  confidence |-> casc.r1.body.result[1].probability,
                                  is_food |-> TRUE]
            ELSE IF Usable(2)
            THEN /\ out.exc = "none" /\ out.calls = SubSeq(stages, 1, 2)
                 /\ out.result = [name |-> casc.r2.body.result[1].name,
                                  confidence |-> casc.r2.body.result[1].score,
                                  is_food |-> TRUE]
            ELSE IF Usable(3)
            THEN /\ out.exc = "none" /\ out.calls = stages
                 /\ out.result.name = casc.r3.body.result[1].keyword
                 /\ out.result.confidence = casc.r3.body.result[1].score
            ELSE out.exc = "ValueError" /\ out.calls = stages

\* stage 1 answers '非菜', stage 2 answers 苹果, stage 3 would answer 桌子
C7_Witness ==
    /\ casc.pc = "return"
    /\ casc.r1 = Json([result |-> <<[name |-> NotDish, probability |-> 90]>>])
    /\ casc.r2 = Json([result |-> <<[name |-> PingGuo, score |-> 80]>>])
    /\ casc.r3 = Json([result |-> <<[keyword |-> ZhuoZi, score |-> 60,
                                     root |-> <<"jia", "ju">>]>>])
    /\ casc.out.result = [name |-> PingGuo, confidence |-> 80, is_food |-> TRUE]
    /\ casc.out.calls = <<"dish", "ingredient">>

====
